---- MODULE Spec2Model ----
(***************************************************************************)
(* Model of the conversion task orchestration layer of the PDF-to-Word OCR *)
(* converter: the multipart parser and the task registry of web_server.py  *)
(* and the batch dispatcher of batch_convert.py.                           *)
(*                                                                         *)
(* Byte strings and file names are sequences of tokens.  "CRLF" is the     *)
(* byte pair \r\n, "sp" a space, "D" the bytes of the delimiter            *)
(* b'--' + boundary, "dd" the two dashes that close the last delimiter,    *)
(* and a token "H_..." is one header line of a part.  Where the boundary   *)
(* itself matters, "D" is spelled out as "dd" followed by "XyZ", the       *)
(* boundary the client chose.                                              *)
(***************************************************************************)
EXTENDS Integers, Sequences, FiniteSets, TLC

\* ------------------------------------------------------------------------
\* Bounds
\* ------------------------------------------------------------------------
MaxContentLen == 2     \* longest file content drawn for the parser
MaxTasks == 2          \* accepted uploads per behaviour
MaxItems == 3          \* resolved items of a batch run
MaxWorkers == 2        \* pool size of a batch run

VARIABLES
    conversion_tasks,  \* web_server.conversion_tasks, the Task Registry
    upload_dir,        \* files of UPLOAD_DIR: name -> bytes
    download_dir,      \* files of DOWNLOAD_DIR, the Artifact Store: name -> bytes
    threads,           \* the convert_thread units, in creation order
    handler,           \* position of the (single-threaded) HTTPServer
    reply,             \* the response the server wrote last
    returned,          \* the task_id values sent to clients, in order
    p_in, p_out, p_pc, \* one run of the multipart parser on its own
    pdf_files,         \* batch: engine outcome of each resolved item
    output_dir,        \* batch: the output_dir argument, <<>> when not given
    outputs,           \* batch: the (output path, item) pairs written so far
    max_workers,       \* batch: pool size
    b_pc,              \* batch: position of batch_convert / main
    pending,           \* batch: call queue of the pool
    workers,           \* batch: item each pool worker holds (0: idle)
    results,           \* batch: result of each item's future
    processed,         \* batch: the workers that ran each item, in order
    finished,          \* batch: the items in the order their calls ended
    collected,         \* batch: the items in the order the loop counted them
    next_result,       \* batch: index executor.map yields next
    successful, failed,
    batch_result,      \* batch: what batch_convert returned
    exit_code          \* batch: what main returned

serverVars == <<conversion_tasks, upload_dir, download_dir, threads, handler,
                reply, returned>>
parseVars == <<p_in, p_out, p_pc>>
batchVars == <<pdf_files, output_dir, outputs, max_workers, b_pc, pending, workers, results, processed,
               finished, collected, next_result, successful, failed, batch_result,
               exit_code>>
vars == <<serverVars, parseVars, batchVars>>

\* ------------------------------------------------------------------------
\* bytes / str helpers
\* ------------------------------------------------------------------------
IsWs(t) == t \in {"sp", "CRLF"}

RECURSIVE LStrip(_)
LStrip(s) == IF s # <<>> /\ IsWs(Head(s)) THEN LStrip(Tail(s)) ELSE s

RECURSIVE RStrip(_)
RStrip(s) ==
    IF s # <<>> /\ IsWs(s[Len(s)]) THEN RStrip(SubSeq(s, 1, Len(s) - 1)) ELSE s

\* bytes.strip() / str.strip()
Strip(s) == LStrip(RStrip(s))

\* index of the first occurrence of token d in s, 0 when there is none
FirstIndex(s, d) ==
    IF \E i \in 1..Len(s) : s[i] = d
    THEN CHOOSE i \in 1..Len(s) : s[i] = d /\ \A j \in 1..(i - 1) : s[j] # d
    ELSE 0

\* bytes.split(d): the segments between the occurrences of d
RECURSIVE SplitOn(_, _)
SplitOn(s, d) ==
    LET i == FirstIndex(s, d)
    IN IF i = 0 THEN <<s>>
       ELSE <<SubSeq(s, 1, i - 1)>> \o SplitOn(SubSeq(s, i + 1, Len(s)), d)

\* bytes.endswith(b'\r\n')
EndsWithCRLF(s) == s # <<>> /\ s[Len(s)] = "CRLF"

\* str.startswith
StartsWith(s, p) == Len(p) <= Len(s) /\ SubSeq(s, 1, Len(p)) = p

\* ------------------------------------------------------------------------
\* Header lines of a part
\* ------------------------------------------------------------------------
FileNameA == <<"a", ".", "pdf">>
FileNameTxt == <<"a", ".", "txt">>
FileNameTrav == <<".", ".", "/", "a", ".", "PDF">>

HeaderTokens ==
    {"H_file_a", "H_file_txt", "H_file_trav", "H_file_b", "H_other_file",
     "H_lang", "H_dpi", "H_ctype"}

\* name.strip().lower() of the header line a token stands for
HeaderName(h) == IF h = "H_ctype" THEN "content-type" ELSE "content-disposition"

\* the (key, value) items that disposition.split(';') and item.split('=', 1)
\* yield for the Content-Disposition line a token stands for
Disposition(h) ==
    CASE h = "H_file_a" ->
           << <<"name", <<"pdf_file">> >>, <<"filename", FileNameA>> >>
      [] h = "H_file_txt" ->
           << <<"name", <<"pdf_file">> >>, <<"filename", FileNameTxt>> >>
      [] h = "H_file_trav" ->
           << <<"name", <<"pdf_file">> >>, <<"filename", FileNameTrav>> >>
      [] h = "H_file_b" ->
           << <<"name", <<"pdf_file">> >>, <<"filename", <<"b", ".", "pdf">> >> >>
      [] h = "H_other_file" ->
           << <<"name", <<"attachment">> >>, <<"filename", FileNameA>> >>
      [] h = "H_lang" -> << <<"name", <<"ocr_lang">> >> >>
      [] h = "H_dpi" -> << <<"name", <<"dpi">> >> >>
      [] OTHER -> << >>

\* parts_dict: the last item of each key wins
HasKey(items, k) == \E i \in 1..Len(items) : items[i][1] = k

Lookup(items, k) ==
    LET i == CHOOSE i \in 1..Len(items) :
                 items[i][1] = k /\ \A j \in (i + 1)..Len(items) : items[j][1] # k
    IN items[i][2]

\* ------------------------------------------------------------------------
\* int(content.decode('utf-8').strip())
\* ------------------------------------------------------------------------
DefaultLang == <<"eng">>
DefaultDpi == 300

IsIntText(s) == s \in {<<"72">>, <<"600">>}

IntOf(s) == IF s = <<"72">> THEN 72 ELSE 600

\* ------------------------------------------------------------------------
\* The multipart parser of handle_convert
\* ------------------------------------------------------------------------
\* headers_raw, content = part.split(b'\r\n\r\n', 1)
HeaderEnd(part) ==
    IF \E i \in 1..(Len(part) - 1) : part[i] = "CRLF" /\ part[i + 1] = "CRLF"
    THEN CHOOSE i \in 1..(Len(part) - 1) :
             /\ part[i] = "CRLF" /\ part[i + 1] = "CRLF"
             /\ \A j \in 1..(i - 1) : ~(part[j] = "CRLF" /\ part[j + 1] = "CRLF")
    ELSE 0

\* the header lines of a part that hold a ':' (one header token, maybe padded)
HeaderLines(headers_raw) ==
    LET lines == SplitOn(Strip(headers_raw), "CRLF")
    IN SelectSeq(lines, LAMBDA l : Len(Strip(l)) = 1 /\ Strip(l)[1] \in HeaderTokens)

\* headers[b'content-disposition']: the last such line wins; <<>> when absent
ContentDisposition(headers_raw) ==
    LET cds == SelectSeq(HeaderLines(headers_raw),
                         LAMBDA l : HeaderName(Strip(l)[1]) = "content-disposition")
    IN IF cds = <<>> THEN <<>> ELSE Disposition(Strip(cds[Len(cds)])[1])

\* if content.endswith(b'\r\n'): content = content[:-2]
TrimFraming(content) ==
    IF EndsWithCRLF(content) THEN SubSeq(content, 1, Len(content) - 1) ELSE content

\* "Skip empty parts"
SkipPart(part) == Strip(part) = <<>> \/ Strip(part) = <<"dd">>

\* NoUpload with a fault: the optional fields start out unset
NoUpload_unset ==
    [has_file |-> FALSE, pdf_file |-> <<>>, pdf_filename |-> <<>>,
     ocr_lang |-> <<>>, dpi |-> 0]

\* pdf_file = None, pdf_filename = None, ocr_lang = 'eng', dpi = 300
NoUpload ==
    [has_file |-> FALSE, pdf_file |-> <<>>, pdf_filename |-> <<>>,
     ocr_lang |-> DefaultLang, dpi |-> DefaultDpi]

\* one iteration of "for part in parts"
ParsePart(acc, part) ==
    IF SkipPart(part) \/ HeaderEnd(part) = 0 THEN acc
    ELSE LET e == HeaderEnd(part)
             headers_raw == SubSeq(part, 1, e - 1)
             content == SubSeq(part, e + 2, Len(part))
             pd == ContentDisposition(headers_raw)
         IN IF pd = <<>> THEN acc
            ELSE IF HasKey(pd, "filename")
            THEN IF HasKey(pd, "name") /\ Lookup(pd, "name") = <<"pdf_file">>
                 THEN [acc EXCEPT !.has_file = TRUE,
                                  !.pdf_filename = Lookup(pd, "filename"),
                                  !.pdf_file = TrimFraming(content)]
                 ELSE acc
            ELSE IF HasKey(pd, "name")
            THEN IF Lookup(pd, "name") = <<"ocr_lang">>
                 THEN [acc EXCEPT !.ocr_lang = Strip(content)]
                 ELSE IF Lookup(pd, "name") = <<"dpi">>
                 THEN IF IsIntText(Strip(content))
                      THEN [acc EXCEPT !.dpi = IntOf(Strip(content))]
                      ELSE acc
                 ELSE acc
            ELSE acc

\* ParseParts with a fault: the loop runs over the parts from the last to
\* the first
RECURSIVE ParseParts_backwards(_, _)
ParseParts_backwards(acc, parts) ==
    IF parts = <<>> THEN acc
    ELSE ParseParts_backwards(ParsePart(acc, parts[Len(parts)]),
                              SubSeq(parts, 1, Len(parts) - 1))

\* for part in parts: ...
RECURSIVE ParseParts(_, _)
ParseParts(acc, parts) ==
    IF parts = <<>> THEN acc
    ELSE ParseParts(ParsePart(acc, Head(parts)), Tail(parts))

\* parts = form_data.split(b'--' + boundary), then the loop over the parts
ParseForm(form_data) == ParseParts(NoUpload, SplitOn(form_data, "D"))

\* ------------------------------------------------------------------------
\* The Content-Type header and the delimiter derived from it
\* ------------------------------------------------------------------------
CtForm == <<"multipart/form-data", ";", "sp", "boundary", "=", "XyZ">>
CtNoBoundary == <<"multipart/form-data">>
CtEmptyBoundary == <<"multipart/form-data", ";", "sp", "boundary", "=">>
CtJson == <<"application/json">>

\* content_type.startswith('multipart/form-data')
IsMultipart(content_type) ==
    content_type # <<>> /\ Head(content_type) = "multipart/form-data"

\* content_type.split('=')[1] raises IndexError when the header has no '='
BoundaryRaises(content_type) == Len(SplitOn(content_type, "=")) < 2

\* boundary = content_type.split('=')[1].strip()
BoundaryOf(content_type) == Strip(SplitOn(content_type, "=")[2])

\* b'--' + boundary
Delimiter(boundary) == <<"dd">> \o boundary

\* the bytes of a body with every delimiter of the client spelled out
RECURSIVE Dashes(_)
Dashes(s) ==
    IF s = <<>> THEN <<>>
    ELSE (IF Head(s) = "D" THEN <<"dd", "XyZ">> ELSE <<Head(s)>>) \o Dashes(Tail(s))

\* index of the first occurrence of the byte string d in s, 0 when none
FirstIndexOf(s, d) ==
    LET at(i) == SubSeq(s, i, i + Len(d) - 1) = d
        I == 1..(Len(s) - Len(d) + 1)
    IN IF \E i \in I : at(i)
       THEN CHOOSE i \in I : at(i) /\ \A j \in 1..(i - 1) : ~at(j)
       ELSE 0

\* bytes.split(d) for a delimiter of several bytes
RECURSIVE SplitSeq(_, _)
SplitSeq(s, d) ==
    LET i == FirstIndexOf(s, d)
    IN IF i = 0 THEN <<s>>
       ELSE <<SubSeq(s, 1, i - 1)>> \o SplitSeq(SubSeq(s, i + Len(d), Len(s)), d)

\* the parsing block of handle_convert for a Content-Type header that has a
\* boundary parameter, whatever its value
ParseFormWith(content_type, form_data) ==
    ParseParts(NoUpload,
               SplitSeq(Dashes(form_data), Delimiter(BoundaryOf(content_type))))

\* ------------------------------------------------------------------------
\* Multipart bodies as a client builds them (RFC 2046 framing)
\* ------------------------------------------------------------------------
RECURSIVE MakeBody(_)
MakeBody(ps) ==
    IF ps = <<>> THEN <<"D", "dd", "CRLF">>
    ELSE <<"D", "CRLF">> \o Head(ps).headers \o <<"CRLF", "CRLF">>
         \o Head(ps).content \o <<"CRLF">> \o MakeBody(Tail(ps))

Part(hs, c) == [headers |-> hs, content |-> c]

\* ------------------------------------------------------------------------
\* File names
\* ------------------------------------------------------------------------
\* werkzeug.utils.secure_filename: path separators become "_", then
\* leading and trailing "." and "_" are stripped
RECURSIVE LStripDots(_)
LStripDots(s) ==
    IF s # <<>> /\ Head(s) \in {".", "_"} THEN LStripDots(Tail(s)) ELSE s

RECURSIVE RStripDots(_)
RStripDots(s) ==
    IF s # <<>> /\ s[Len(s)] \in {".", "_"}
    THEN RStripDots(SubSeq(s, 1, Len(s) - 1)) ELSE s

secure_filename(s) ==
    LStripDots(RStripDots([i \in 1..Len(s) |-> IF s[i] = "/" THEN "_" ELSE s[i]]))

Lower(t) == IF t = "PDF" THEN "pdf" ELSE t

\* pdf_filename.lower().endswith('.pdf')
EndsWithPdf(s) == Len(s) >= 2 /\ s[Len(s) - 1] = "." /\ Lower(s[Len(s)]) = "pdf"

LastDot(s) == CHOOSE i \in 1..Len(s) : s[i] = "." /\ \A j \in (i + 1)..Len(s) : s[j] # "."

\* pdf_filename.rsplit('.', 1)[0] + '.docx'
OutputFilename(s) == SubSeq(s, 1, LastDot(s) - 1) \o <<".", "docx">>

\* ScopedName with a fault: the file is stored under the client's name
ScopedName_plain(file_id, name) == name

\* os.path.join(DIR, f"{file_id}_{name}"): the name within the directory
ScopedName(file_id, name) == file_id \o <<"_">> \o name

\* path.split('/')[-1]
LastSegment(path) ==
    IF \E i \in 1..Len(path) : path[i] = "/"
    THEN LET i == CHOOSE i \in 1..Len(path) :
                      path[i] = "/" /\ \A j \in (i + 1)..Len(path) : path[j] # "/"
         IN SubSeq(path, i + 1, Len(path))
    ELSE path

DownloadPrefix == <<"/", "download", "/">>

\* ------------------------------------------------------------------------
\* Directories: functions from names to bytes
\* ------------------------------------------------------------------------
EmptyDir == [n \in {} |-> <<>>]

WriteFile(dir, name, bytes) ==
    [n \in DOMAIN dir \cup {name} |-> IF n = name THEN bytes ELSE dir[n]]

RemoveFile(dir, name) == [n \in DOMAIN dir \ {name} |-> dir[n]]

\* ------------------------------------------------------------------------
\* Task Registry entries
\* ------------------------------------------------------------------------
ProcessingEntry == [status |-> "processing", progress |-> 0]

\* CompletedEntry with a fault: the locator leaves out the identifier
CompletedEntry_unscoped(file_id, output_filename) ==
    [status |-> "completed", progress |-> 100,
     download_url |-> DownloadPrefix \o output_filename,
     filename |-> output_filename]

CompletedEntry(file_id, output_filename) ==
    [status |-> "completed", progress |-> 100,
     download_url |-> DownloadPrefix \o ScopedName(file_id, output_filename),
     filename |-> output_filename]

\* FailedEntry with a fault: only the status is updated, in place
FailedEntry_status_only(msg) == [status |-> "failed", progress |-> 0]

FailedEntry(msg) == [status |-> "failed", progress |-> 100, error |-> msg]

\* SetTask with a fault: the registry is replaced by the one entry
SetTask_alone(file_id, entry) == [t \in {file_id} |-> entry]

\* conversion_tasks[file_id] = entry
SetTask(file_id, entry) ==
    [t \in DOMAIN conversion_tasks \cup {file_id} |->
        IF t = file_id THEN entry ELSE conversion_tasks[t]]

Terminal(entry) == entry.status \in {"completed", "failed"}

\* ------------------------------------------------------------------------
\* The HTTP server: POST /api/convert
\* ------------------------------------------------------------------------
\* the identifiers uuid4 can produce, in the order the model hands them out
UUIDs == << <<"0", "0">>, <<"0", "1">>, <<"1", "0">>, <<"1", "1">> >>

Used(u) == \E k \in 1..Len(threads) : threads[k].file_id = u

\* uuid4 with a fault: an identifier generator that can repeat itself
uuid4_any == {UUIDs[i] : i \in 1..Len(UUIDs)}

\* str(uuid.uuid4()): an identifier that was not generated before; identifiers
\* are opaque, so the model takes the first unused one
uuid4 ==
    {UUIDs[i] : i \in {j \in 1..Len(UUIDs) :
                          ~Used(UUIDs[j]) /\ \A h \in 1..(j - 1) : Used(UUIDs[h])}}

\* a request: the Content-Type and Content-Length headers, what the client
\* put into the body, and the bytes on the wire
Request(ct, ps) ==
    [ctype |-> ct, content_length |-> "len", parts |-> ps,
     form_data |-> MakeBody(ps)]

\* the uploads a client sends
Requests ==
    { Request(CtForm, <<Part(<<"H_file_a">>, <<"x">>)>>),
      Request(CtForm,
              <<Part(<<"H_lang">>, <<"sp", "deu">>),
                Part(<<"H_file_trav", "CRLF", "H_ctype">>, <<"y", "CRLF">>),
                Part(<<"H_dpi">>, <<"72">>)>>),
      Request(CtForm, <<Part(<<"H_lang">>, <<"deu">>)>>),
      Request(CtForm, <<Part(<<"H_other_file">>, <<"x">>)>>),
      Request(CtForm, <<Part(<<"H_file_txt">>, <<"x">>)>>),
      Request(CtJson, <<>>),
      Request(CtNoBoundary, <<Part(<<"H_file_a">>, <<"x">>)>>),
      Request(CtEmptyBoundary, <<Part(<<"H_file_a">>, <<"x">>)>>),
      [Request(CtForm, <<Part(<<"H_file_a">>, <<"x">>)>>)
          EXCEPT !.content_length = "abc"],
      Request(CtForm,
              <<Part(<<"H_dpi">>, <<"abc">>), Part(<<"H_file_a">>, <<"x">>)>>) }

\* the parser's result for each of them
Parsed ==
    [req \in Requests |->
        IF BoundaryRaises(req.ctype) THEN NoUpload
        ELSE ParseFormWith(req.ctype, req.form_data)]

NoRequest ==
    [ctype |-> <<>>, content_length |-> "", parts |-> <<>>, form_data |-> <<>>]
NoJson == [nojson |-> TRUE]

\* no response is being written
NoReply ==
    [method |-> "", path |-> <<>>, request |-> NoRequest, status |-> 0,
     content_type |-> "", json |-> NoJson, data |-> <<>>, filename |-> <<>>]

Idle == [pc |-> "idle", file_id |-> <<>>, request |-> NoRequest]
Replied == [pc |-> "replied", file_id |-> <<>>, request |-> NoRequest]

\* serve_json(data): always status 200
JsonReply(req, data) ==
    [method |-> "POST", path |-> <<"/", "api", "/", "convert">>,
     request |-> req, status |-> 200, content_type |-> "application/json",
     json |-> data, data |-> <<>>, filename |-> <<>>]

ErrorJson(msg) == [error |-> msg]

\* the early returns of handle_convert: the error it answers with, "" if none
RejectReason(req) ==
    IF ~IsMultipart(req.ctype) THEN "Invalid content type"
    ELSE IF req.content_length # "len" THEN "Invalid content length"
    ELSE IF BoundaryRaises(req.ctype)
    THEN "Server error: list index out of range"
    ELSE LET p == Parsed[req]
         IN IF ~p.has_file THEN "No PDF file uploaded"
            ELSE IF ~EndsWithPdf(secure_filename(p.pdf_filename))
            THEN "Invalid file type. Only PDF files are supported."
            ELSE ""

\* Reject with a fault: the body is staged before it is validated
Reject_staged(req) ==
    /\ reply' = JsonReply(req, ErrorJson(RejectReason(req)))
    /\ handler' = Replied
    /\ upload_dir' = WriteFile(upload_dir, <<"upload">>, req.form_data)
    /\ UNCHANGED <<conversion_tasks, download_dir, threads, returned>>

\* a rejected upload: the error is served and nothing else happens
Reject(req) ==
    /\ reply' = JsonReply(req, ErrorJson(RejectReason(req)))
    /\ handler' = Replied
    /\ UNCHANGED <<conversion_tasks, upload_dir, download_dir, threads, returned>>

\* an accepted upload, up to thread.start()
Accept(req) ==
    /\ Len(threads) < MaxTasks
    /\ \E file_id \in uuid4 :
         LET p == Parsed[req]
             pdf_filename == secure_filename(p.pdf_filename)
             output_filename == OutputFilename(pdf_filename)
         IN /\ upload_dir' =
                  WriteFile(upload_dir, ScopedName(file_id, pdf_filename), p.pdf_file)
            /\ threads' = Append(threads,
                  [file_id |-> file_id, pc |-> "L319",
                   pdf_path |-> ScopedName(file_id, pdf_filename),
                   output_path |-> ScopedName(file_id, output_filename),
                   output_filename |-> output_filename,
                   ocr_lang |-> p.ocr_lang, dpi |-> p.dpi, wrote |-> <<>>,
                   e |-> ""])
            /\ handler' = [pc |-> "L347", file_id |-> file_id, request |-> req]
    /\ UNCHANGED <<conversion_tasks, download_dir, reply, returned>>

handle_convert ==
    /\ handler.pc = "idle"
    /\ \E req \in Requests :
         IF RejectReason(req) # "" THEN Reject(req) ELSE Accept(req)
    /\ UNCHANGED <<parseVars, batchVars>>

\* self.serve_json({'task_id': file_id, ...}) after thread.start()
serve_task_id ==
    /\ handler.pc = "L347"
    /\ reply' = JsonReply(handler.request,
                          [task_id |-> handler.file_id, status |-> "processing",
                           message |-> "Conversion started"])
    /\ returned' = Append(returned, handler.file_id)
    /\ handler' = Replied
    /\ UNCHANGED <<conversion_tasks, upload_dir, download_dir, threads>>
    /\ UNCHANGED <<parseVars, batchVars>>

\* the handler returns and the server waits for the next request
finish_request ==
    /\ handler.pc = "replied"
    /\ handler' = Idle
    /\ reply' = NoReply
    /\ UNCHANGED <<conversion_tasks, upload_dir, download_dir, threads, returned>>
    /\ UNCHANGED <<parseVars, batchVars>>

\* ------------------------------------------------------------------------
\* convert_thread, one step per statement that touches shared state
\* ------------------------------------------------------------------------
SetPc(k, pc) == [threads EXCEPT ![k].pc = pc]

\* conversion_tasks[file_id] = {'status': 'processing', 'progress': 0}
T_register(k) ==
    /\ threads[k].pc = "L319"
    /\ conversion_tasks' = SetTask(threads[k].file_id, ProcessingEntry)
    /\ threads' = SetPc(k, "L320")
    /\ UNCHANGED <<upload_dir, download_dir, handler, reply, returned>>
    /\ UNCHANGED <<parseVars, batchVars>>

\* the document the Conversion Engine writes for an input
EngineOutput(pdf_bytes, lang, dpi) == <<"docx">> \o pdf_bytes

\* success = convert_pdf_to_word(pdf_path, output_path, ocr_lang, dpi)
T_engine(k) ==
    /\ threads[k].pc = "L320"
    /\ \E outcome \in {"ok", "false", "raise"} :
         LET t == threads[k]
         IN IF outcome = "ok" /\ t.pdf_path \in DOMAIN upload_dir
            THEN LET doc == EngineOutput(upload_dir[t.pdf_path], t.ocr_lang, t.dpi)
                 IN /\ download_dir' = WriteFile(download_dir, t.output_path, doc)
                    /\ threads' = [threads EXCEPT ![k].pc = "L323", ![k].wrote = doc]
            ELSE /\ download_dir' = download_dir
                 /\ threads' = IF outcome = "raise"
                               THEN [threads EXCEPT ![k].pc = "L339",
                                                    ![k].e = "engine error"]
                               ELSE SetPc(k, "L330")
    /\ UNCHANGED <<conversion_tasks, upload_dir, handler, reply, returned>>
    /\ UNCHANGED <<parseVars, batchVars>>

\* if success: ... 'completed' ... else: ... 'failed'
T_set_terminal(k) ==
    /\ threads[k].pc \in {"L323", "L330"}
    /\ conversion_tasks' =
         SetTask(threads[k].file_id,
                 IF threads[k].pc = "L323"
                 THEN CompletedEntry(threads[k].file_id, threads[k].output_filename)
                 ELSE FailedEntry("Conversion failed"))
    /\ threads' = SetPc(k, "L334")
    /\ UNCHANGED <<upload_dir, download_dir, handler, reply, returned>>
    /\ UNCHANGED <<parseVars, batchVars>>

\* T_cleanup with a fault: a failing os.remove is not swallowed and reaches
\* the handler of the outer try
T_cleanup_unguarded(k) ==
    /\ threads[k].pc = "L334"
    /\ \E removed \in BOOLEAN :
         /\ upload_dir' = IF removed THEN RemoveFile(upload_dir, threads[k].pdf_path)
                                     ELSE upload_dir
         /\ threads' = IF removed THEN SetPc(k, "done")
                       ELSE [threads EXCEPT ![k].pc = "L339", ![k].e = "remove failed"]
    /\ UNCHANGED <<conversion_tasks, download_dir, handler, reply, returned>>
    /\ UNCHANGED <<parseVars, batchVars>>

\* try: os.remove(pdf_path) except: pass -- os.remove can fail (OSError),
\* and then the upload stays where it is
T_cleanup(k) ==
    /\ threads[k].pc = "L334"
    /\ \E removed \in BOOLEAN :
         upload_dir' = IF removed THEN RemoveFile(upload_dir, threads[k].pdf_path)
                                  ELSE upload_dir
    /\ threads' = SetPc(k, "done")
    /\ UNCHANGED <<conversion_tasks, download_dir, handler, reply, returned>>
    /\ UNCHANGED <<parseVars, batchVars>>

\* T_except with a fault: the exception escapes the thread
T_except_lost(k) ==
    /\ threads[k].pc = "L339"
    /\ threads' = SetPc(k, "done")
    /\ UNCHANGED <<conversion_tasks, upload_dir, download_dir, handler, reply,
                   returned>>
    /\ UNCHANGED <<parseVars, batchVars>>

\* T_except with a fault: the handler reports a fixed text, not str(e)
T_except_generic(k) ==
    /\ threads[k].pc = "L339"
    /\ conversion_tasks' = SetTask(threads[k].file_id, FailedEntry("Conversion failed"))
    /\ threads' = SetPc(k, "done")
    /\ UNCHANGED <<upload_dir, download_dir, handler, reply, returned>>
    /\ UNCHANGED <<parseVars, batchVars>>

\* except Exception as e: ... 'failed' ... 'error': str(e)
T_except(k) ==
    /\ threads[k].pc = "L339"
    /\ conversion_tasks' = SetTask(threads[k].file_id, FailedEntry(threads[k].e))
    /\ threads' = SetPc(k, "done")
    /\ UNCHANGED <<upload_dir, download_dir, handler, reply, returned>>
    /\ UNCHANGED <<parseVars, batchVars>>

convert_thread(k) ==
    T_register(k) \/ T_engine(k) \/ T_set_terminal(k) \/ T_cleanup(k) \/ T_except(k)

\* ------------------------------------------------------------------------
\* The HTTP server: GET /download/<name>
\* ------------------------------------------------------------------------
\* the download requests a client makes: the locators the registry holds,
\* the bare identifiers, the first character of an identifier, and no
\* identifier at all
DownloadPaths ==
    {conversion_tasks[t].download_url :
        t \in {u \in DOMAIN conversion_tasks :
                   conversion_tasks[u].status = "completed"}}
    \cup {DownloadPrefix \o threads[k].file_id : k \in 1..Len(threads)}
    \cup {DownloadPrefix \o <<Head(threads[k].file_id)>> : k \in 1..Len(threads)}
    \cup {DownloadPrefix}

\* Matches with a fault: any stored file is served
Matches_any(file_name, file_id) == TRUE

\* if file_name.startswith(file_id)
Matches(file_name, file_id) == StartsWith(file_name, file_id)

\* the document served with status 200
FileReply(path, name, bytes) ==
    [method |-> "GET", path |-> path, request |-> NoRequest, status |-> 200,
     content_type |-> "application/vnd.openxmlformats-officedocument.wordprocessingml.document",
     json |-> NoJson, data |-> bytes, filename |-> name]

\* self.send_error(code, ...): the error page of BaseHTTPRequestHandler
send_error(path, code) ==
    [method |-> "GET", path |-> path, request |-> NoRequest, status |-> code,
     content_type |-> "text/html;charset=utf-8",
     json |-> NoJson, data |-> <<>>, filename |-> <<>>]

\* do_GET on a /download/ path, then handle_download(file_id); os.listdir
\* yields the names in any order and the first match is served
handle_download ==
    /\ handler.pc = "idle"
    /\ \E path \in DownloadPaths :
         LET file_id == LastSegment(path)
             found == {f \in DOMAIN download_dir : Matches(f, file_id)}
         IN IF found # {}
            THEN \E f \in found : reply' = FileReply(path, f, download_dir[f])
            ELSE reply' = send_error(path, 404)
    /\ handler' = Replied
    /\ UNCHANGED <<conversion_tasks, upload_dir, download_dir, threads, returned>>
    /\ UNCHANGED <<parseVars, batchVars>>

\* ------------------------------------------------------------------------
\* The multipart parser run on its own
\* ------------------------------------------------------------------------
ContentBytes == {"x", "sp", "CRLF", "D"}

\* RFC 2046: the delimiter does not occur in a part at the start of a line
WellFormedContent(c) ==
    \A i \in 1..Len(c) : c[i] = "D" => (i > 1 /\ c[i - 1] # "CRLF")

Contents ==
    {c \in UNION {[1..n -> ContentBytes] : n \in 0..MaxContentLen} :
        WellFormedContent(c)}

LangValues == {<<"deu">>, <<"sp", "deu">>}
DpiValues == {<<"72">>, <<"600", "sp">>, <<"abc">>}

\* the bytes of a second file a client may put under the same field
SecondContents == {<<"y">>, <<"x", "CRLF">>}

\* an upload form: the file's bytes and the field values the client
\* declares, and maybe a second file b.pdf under the field pdf_file
Forms ==
    [content : Contents, has_lang : BOOLEAN, lang : LangValues,
     has_dpi : BOOLEAN, dpi : DpiValues,
     has_second : BOOLEAN, second : SecondContents]

PartsOf(f) ==
    {Part(<<"H_file_a">>, f.content)}
    \cup (IF f.has_lang THEN {Part(<<"H_lang">>, f.lang)} ELSE {})
    \cup (IF f.has_dpi THEN {Part(<<"H_dpi">>, f.dpi)} ELSE {})
    \cup (IF f.has_second THEN {Part(<<"H_file_b">>, f.second)} ELSE {})

\* the orders in which the parts of a form can appear in the body
Orders(f) ==
    LET S == PartsOf(f)
    IN {ps \in [1..Cardinality(S) -> S] :
            \A i, j \in 1..Cardinality(S) : ps[i] = ps[j] => i = j}

\* the forms, each written one way (an undeclared field has a fixed value);
\* a form with a second file declares no dpi
CanonicalForms ==
    {g \in Forms : /\ (g.has_lang \/ g.lang = <<"deu">>)
                   /\ (g.has_dpi \/ g.dpi = <<"72">>)
                   /\ (g.has_second \/ g.second = <<"y">>)
                   /\ (g.has_second => ~g.has_dpi)}

ParseInit ==
    /\ p_in \in UNION {{[form |-> f, parts |-> ps] : ps \in Orders(f)} :
                         f \in CanonicalForms}
    /\ p_out = NoUpload
    /\ p_pc = "body"

ParseIdle == p_in = <<>> /\ p_out = NoUpload /\ p_pc = "idle"

\* the parsing block of handle_convert applied to the body of the form
parse_form_data ==
    /\ p_pc = "body"
    /\ p_out' = ParseForm(MakeBody(p_in.parts))
    /\ p_pc' = "parsed"
    /\ UNCHANGED <<p_in, serverVars, batchVars>>

\* ------------------------------------------------------------------------
\* batch_convert
\* ------------------------------------------------------------------------
EngineOutcomes == {"ok", "false", "raise"}

Items == 1..Len(pdf_files)

NoResult == [done |-> FALSE, success |-> FALSE, raised |-> FALSE]

\* the paths that glob.glob(input_path/**/*.pdf, recursive=True) resolves
\* for a tree with the files 1.pdf, 2.pdf, ... in the directory "in" and
\* files of the same names in its subdirectory "sub": item i is number
\* (i + 1) \div 2, odd items in "in" and even items in "in/sub"
PdfPath(i) ==
    [dir |-> IF i % 2 = 1 THEN <<"in">> ELSE <<"in", "sub">>,
     stem |-> (i + 1) \div 2, suffix |-> "pdf"]

\* pdf_path.with_suffix('.docx')
WithSuffixDocx(path) == [path EXCEPT !.suffix = "docx"]

\* process_file: Path(output_dir) / pdf_path.with_suffix('.docx').name when
\* an output directory is given, else pdf_path.with_suffix('.docx')
OutputPath(i) ==
    IF output_dir # <<>>
    THEN [WithSuffixDocx(PdfPath(i)) EXCEPT !.dir = output_dir]
    ELSE WithSuffixDocx(PdfPath(i))

\* process_file with a fault: the engine's exception leaves the worker
process_file_uncaught(outcome) ==
    [done |-> TRUE, success |-> (outcome = "ok"), raised |-> (outcome = "raise")]

\* process_file: the engine's exception is caught and becomes success = False
process_file(outcome) ==
    [done |-> TRUE, success |-> (outcome = "ok"), raised |-> FALSE]

BatchInit ==
    /\ pdf_files \in UNION {[1..m -> EngineOutcomes] : m \in 0..MaxItems}
    /\ output_dir \in {<<>>, <<"out">>}
    /\ outputs = {}
    /\ max_workers \in 1..MaxWorkers
    /\ b_pc = "start"
    /\ pending = <<>>
    /\ workers = [w \in 1..max_workers |-> 0]
    /\ results = [i \in Items |-> NoResult]
    /\ processed = [i \in Items |-> <<>>]
    /\ finished = <<>>
    /\ collected = <<>>
    /\ next_result = 1
    /\ successful = 0
    /\ failed = 0
    /\ batch_result = FALSE
    /\ exit_code = -1

BatchIdle ==
    /\ pdf_files = <<>>
    /\ output_dir = <<>>
    /\ outputs = {}
    /\ max_workers = 1
    /\ b_pc = "idle"
    /\ pending = <<>>
    /\ workers = [w \in 1..max_workers |-> 0]
    /\ results = [i \in Items |-> NoResult]
    /\ processed = [i \in Items |-> <<>>]
    /\ finished = <<>>
    /\ collected = <<>>
    /\ next_result = 1
    /\ successful = 0
    /\ failed = 0
    /\ batch_result = FALSE
    /\ exit_code = -1

\* "if not pdf_files: return False", else the items are submitted to the pool
B_dispatch ==
    /\ b_pc = "start"
    /\ IF pdf_files = <<>>
       THEN /\ batch_result' = FALSE
            /\ b_pc' = "returned"
            /\ pending' = pending
       ELSE /\ pending' = [i \in Items |-> i]
            /\ b_pc' = "map"
            /\ batch_result' = batch_result
    /\ UNCHANGED <<pdf_files, output_dir, max_workers, workers, results, processed, finished,
                   collected, next_result, successful, failed, exit_code>>
    /\ UNCHANGED <<outputs, serverVars, parseVars>>

\* an idle pool worker takes the next call from the queue
W_take(w) ==
    /\ b_pc = "map"
    /\ workers[w] = 0
    /\ pending # <<>>
    /\ workers' = [workers EXCEPT ![w] = Head(pending)]
    /\ pending' = Tail(pending)
    /\ UNCHANGED <<pdf_files, output_dir, max_workers, b_pc, results, processed, finished,
                   collected, next_result, successful, failed, batch_result,
                   exit_code>>
    /\ UNCHANGED <<outputs, serverVars, parseVars>>

\* the worker runs process_file on its item and sets the future's result
W_run(w) ==
    /\ workers[w] # 0
    /\ results' = [results EXCEPT ![workers[w]] = process_file(pdf_files[workers[w]])]
    /\ processed' = [processed EXCEPT ![workers[w]] = Append(@, w)]
    /\ finished' = Append(finished, workers[w])
    /\ outputs' = IF pdf_files[workers[w]] = "ok"
                  THEN outputs \cup {<<OutputPath(workers[w]), workers[w]>>}
                  ELSE outputs
    /\ workers' = [workers EXCEPT ![w] = 0]
    /\ UNCHANGED <<pdf_files, output_dir, max_workers, b_pc, pending, collected, next_result,
                   successful, failed, batch_result, exit_code>>
    /\ UNCHANGED <<serverVars, parseVars>>

\* Tally with a fault: a failed item is not counted
Tally_success_only(r) ==
    IF r.success THEN <<successful + 1, failed>> ELSE <<successful, failed>>

\* "if success: successful += 1 ... else: failed += 1"
Tally(r) ==
    IF r.success THEN <<successful + 1, failed>> ELSE <<successful, failed + 1>>

\* B_collect with a fault: the loop takes whichever result is ready, as
\* concurrent.futures.as_completed would hand them out
B_collect_as_completed ==
    /\ b_pc = "map"
    /\ next_result <= Len(pdf_files)
    /\ \E i \in Items :
         /\ results[i].done
         /\ \A n \in 1..Len(collected) : collected[n] # i
         /\ successful' = Tally(results[i])[1]
         /\ failed' = Tally(results[i])[2]
         /\ collected' = Append(collected, i)
    /\ next_result' = next_result + 1
    /\ UNCHANGED <<pdf_files, output_dir, max_workers, b_pc, pending, workers, results,
                   processed, finished, batch_result, exit_code>>
    /\ UNCHANGED <<outputs, serverVars, parseVars>>

\* one iteration of "for ... in executor.map(process_file, process_args)":
\* map yields the results in submission order and re-raises a call's exception
B_collect ==
    /\ b_pc = "map"
    /\ next_result <= Len(pdf_files)
    /\ results[next_result].done
    /\ IF results[next_result].raised
       THEN /\ b_pc' = "raised"
            /\ pending' = <<>>
            /\ UNCHANGED <<next_result, successful, failed, collected>>
       ELSE /\ successful' = Tally(results[next_result])[1]
            /\ failed' = Tally(results[next_result])[2]
            /\ collected' = Append(collected, next_result)
            /\ next_result' = next_result + 1
            /\ UNCHANGED <<b_pc, pending>>
    /\ UNCHANGED <<pdf_files, output_dir, max_workers, workers, results, processed, finished,
                   batch_result, exit_code>>
    /\ UNCHANGED <<outputs, serverVars, parseVars>>

\* BatchSuccess with a fault: success means that no item failed
BatchSuccess_no_failure == failed = 0

\* "return successful > 0"
BatchSuccess == successful > 0

B_return ==
    /\ b_pc = "map"
    /\ next_result > Len(pdf_files)
    /\ batch_result' = BatchSuccess
    /\ b_pc' = "returned"
    /\ UNCHANGED <<pdf_files, output_dir, max_workers, pending, workers, results, processed,
                   finished, collected, next_result, successful, failed, exit_code>>
    /\ UNCHANGED <<outputs, serverVars, parseVars>>

\* main: "return 0 if success else 1"
main_exit ==
    /\ b_pc = "returned"
    /\ exit_code' = IF batch_result THEN 0 ELSE 1
    /\ b_pc' = "exited"
    /\ UNCHANGED <<pdf_files, output_dir, max_workers, pending, workers, results, processed,
                   finished, collected, next_result, successful, failed,
                   batch_result>>
    /\ UNCHANGED <<outputs, serverVars, parseVars>>

\* ------------------------------------------------------------------------
\* Specifications
\* ------------------------------------------------------------------------
ServerInit ==
    /\ conversion_tasks = [t \in {} |-> ProcessingEntry]
    /\ upload_dir = EmptyDir
    /\ download_dir = EmptyDir
    /\ threads = <<>>
    /\ handler = Idle
    /\ reply = NoReply
    /\ returned = <<>>

ThreadStep == \E k \in 1..Len(threads) : convert_thread(k)

\* the web server
Init == ServerInit /\ ParseIdle /\ BatchIdle

Next ==
    \/ handle_convert
    \/ serve_task_id
    \/ handle_download
    \/ finish_request
    \/ \E k \in 1..Len(threads) : T_register(k)
    \/ \E k \in 1..Len(threads) : T_engine(k)
    \/ \E k \in 1..Len(threads) : T_set_terminal(k)
    \/ \E k \in 1..Len(threads) : T_cleanup(k)
    \/ \E k \in 1..Len(threads) : T_except(k)

Spec == Init /\ [][Next]_vars

\* the web server with every started thread scheduled, and the response sent
FairSpec == Spec /\ WF_vars(ThreadStep) /\ WF_vars(serve_task_id)

\* the multipart parser on every form
ParseSpecInit == ServerInit /\ ParseInit /\ BatchIdle

ParseSpec == ParseSpecInit /\ [][parse_form_data]_vars

\* a batch run
BatchSpecInit == ServerInit /\ ParseIdle /\ BatchInit

BatchNext ==
    \/ B_dispatch
    \/ \E w \in 1..max_workers : W_take(w)
    \/ \E w \in 1..max_workers : W_run(w)
    \/ B_collect
    \/ B_return
    \/ main_exit

BatchSpec == BatchSpecInit /\ [][BatchNext]_vars

\* ------------------------------------------------------------------------
\* Properties of the web server
\* ------------------------------------------------------------------------
Status(t) == conversion_tasks[t].status

IsTerminal(t) == t \in DOMAIN conversion_tasks /\ Terminal(conversion_tasks[t])

WasReturned(i) == i <= Len(returned)

\* C1: every task identifier that submit returned eventually has a registry
\* entry with a terminal status (completed or failed), given that its thread
\* is scheduled and the engine call ends; and a terminal entry is never set
\* back to processing.
C1_TerminalAndNoRegress ==
    /\ \A i \in 1..MaxTasks :
         WasReturned(i) ~> (WasReturned(i) /\ IsTerminal(returned[i]))
    /\ [][\A t \in DOMAIN conversion_tasks :
            Terminal(conversion_tasks[t])
              => (t \in DOMAIN conversion_tasks' /\ Status(t)' # "processing")]_vars

C1_Witness ==
    \E i, j \in 1..Len(returned) :
       /\ IsTerminal(returned[i]) /\ Status(returned[i]) = "completed"
       /\ IsTerminal(returned[j]) /\ Status(returned[j]) = "failed"
       /\ conversion_tasks[returned[j]].error = "engine error"

\* C2: whenever submit has returned a task identifier, the registry holds an
\* entry for it (registered as processing before the response was sent).
C2_RegisteredBeforeReturn ==
    \A i \in 1..Len(returned) : returned[i] \in DOMAIN conversion_tasks

\* C3: the task identifiers returned by submit are pairwise different.
C3_DistinctIds ==
    \A i, j \in 1..Len(returned) : returned[i] = returned[j] => i = j

C3_Witness == Len(returned) >= 2 /\ returned[1] # returned[2]

\* the client put no part with a filename under field pdf_file into the body
NoFilePart(req) ==
    ~\E i \in 1..Len(req.parts) : \E j \in 1..Len(req.parts[i].headers) :
        LET h == req.parts[i].headers[j]
        IN /\ h \in HeaderTokens
           /\ HeaderName(h) = "content-disposition"
           /\ HasKey(Disposition(h), "filename")
           /\ HasKey(Disposition(h), "name")
           /\ Lookup(Disposition(h), "name") = <<"pdf_file">>

AnsweredPost == handler.pc # "replied" /\ handler'.pc = "replied" /\ reply'.method = "POST"

\* C4: a multipart submission without a file part under pdf_file is answered
\* with an error, and the step leaves the registry, the upload directory,
\* the download directory and the set of threads unchanged.
C4_NoFilePartRejected ==
    [][(AnsweredPost /\ IsMultipart(reply'.request.ctype)
          /\ NoFilePart(reply'.request))
         => /\ DOMAIN reply'.json = {"error"}
            /\ UNCHANGED <<conversion_tasks, upload_dir, download_dir, threads>>]_vars

C4_Witness ==
    /\ reply.method = "POST"
    /\ IsMultipart(reply.request.ctype)
    /\ NoFilePart(reply.request)
    /\ reply.json = ErrorJson("No PDF file uploaded")
    /\ Len(threads) >= 1
    /\ DOMAIN upload_dir # {}

\* ------------------------------------------------------------------------
\* Properties of the multipart parser
\* ------------------------------------------------------------------------
\* C5: for a well-formed body with one file part and the declared ocr_lang
\* and dpi parts, the parser yields the file's bytes exactly and the declared
\* field values, and yields the same for every order of the parts.
C5_ParserRoundTrip ==
    (p_pc = "parsed" /\ ~p_in.form.has_second
       /\ (p_in.form.has_dpi => IsIntText(Strip(p_in.form.dpi))))
      => /\ p_out.has_file
         /\ p_out.pdf_file = p_in.form.content
         /\ p_in.form.has_lang => p_out.ocr_lang = p_in.form.lang
         /\ p_in.form.has_dpi => p_out.dpi = IntOf(Strip(p_in.form.dpi))
         /\ \A ps \in Orders(p_in.form) : ParseForm(MakeBody(ps)) = p_out

\* ------------------------------------------------------------------------
\* Properties of downloads
\* ------------------------------------------------------------------------
AnsweredGet == handler.pc # "replied" /\ handler'.pc = "replied" /\ reply'.method = "GET"

\* C6: a download made with the locator of a completed task answers 200 with
\* the bytes the engine wrote for that task, every time, and leaves the
\* download directory as it was.
C6_DownloadReturnsArtifact ==
    [][\A k \in 1..Len(threads) :
         LET t == threads[k].file_id
         IN (/\ AnsweredGet
             /\ t \in DOMAIN conversion_tasks
             /\ Status(t) = "completed"
             /\ reply'.path = conversion_tasks[t].download_url)
            => /\ reply'.status = 200
               /\ reply'.data = threads[k].wrote
               /\ reply'.data # <<>>
               /\ download_dir' = download_dir]_vars

C6_Witness ==
    \E t \in DOMAIN conversion_tasks :
       /\ Status(t) = "completed"
       /\ reply.method = "GET"
       /\ reply.path = conversion_tasks[t].download_url
       /\ reply.status = 200
       /\ Cardinality(DOMAIN download_dir) >= 2

\* ------------------------------------------------------------------------
\* Properties of a batch run
\* ------------------------------------------------------------------------
Converts(i) == pdf_files[i] = "ok"

K == Cardinality({i \in Items : Converts(i)})

BatchOver == b_pc \in {"returned", "exited"}

\* C7: every resolved item is run exactly once by one worker, the summary
\* counts the K convertible items as successes and the other M-K as
\* failures, and every convertible item completes whatever the others do.
C7_BatchCounts ==
    /\ \A i \in Items : Len(processed[i]) <= 1
    /\ BatchOver =>
         /\ \A i \in Items : Len(processed[i]) = 1
         /\ successful = K
         /\ failed = Len(pdf_files) - K
         /\ \A i \in Items : Converts(i) => results[i].done /\ results[i].success

C7_Witness ==
    /\ BatchOver
    /\ successful >= 1
    /\ failed >= 2
    /\ \E i, j \in Items : processed[i] # processed[j]

\* C8: batch_convert returns success exactly when at least one resolved item
\* converted; with no resolved item it returns failure and no worker is
\* given anything; main exits 0 when it returned success and 1 otherwise.
C8_BatchResult ==
    /\ BatchOver => (batch_result <=> \E i \in Items : Converts(i))
    /\ pdf_files = <<>> =>
         /\ pending = <<>>
         /\ \A w \in 1..max_workers : workers[w] = 0
         /\ BatchOver => ~batch_result
    /\ b_pc = "exited" => exit_code = (IF batch_result THEN 0 ELSE 1)

C8_Witness ==
    /\ b_pc = "exited"
    /\ exit_code = 1
    /\ Len(pdf_files) >= 2
    /\ failed = Len(pdf_files)

\* C9: an engine exception in one item is caught in that item's worker and
\* recorded as that item's failure; the run is never aborted, and all items
\* are processed and counted.
C9_ExceptionIsItemFailure ==
    /\ b_pc # "raised"
    /\ \A i \in Items :
         (results[i].done /\ pdf_files[i] = "raise")
           => ~results[i].success /\ ~results[i].raised
    /\ BatchOver =>
         /\ \A i \in Items : results[i].done
         /\ successful + failed = Len(pdf_files)

C9_Witness ==
    /\ b_pc = "exited"
    /\ \E i, j \in Items :
         /\ i < j
         /\ pdf_files[i] = "raise"
         /\ Converts(j)
         /\ results[j].success
    /\ batch_result

\* ------------------------------------------------------------------------
\* Properties of the Task Registry
\* ------------------------------------------------------------------------
\* C10: every registry entry has a status among processing, completed and
\* failed; progress 0 exactly when processing and 100 exactly when terminal;
\* an error field exactly when failed; a download locator and a file name
\* exactly when completed.
C10_EntryWellFormed ==
    \A t \in DOMAIN conversion_tasks :
       LET e == conversion_tasks[t]
       IN /\ e.status \in {"processing", "completed", "failed"}
          /\ e.progress \in {0, 100}
          /\ e.progress = 0 <=> e.status = "processing"
          /\ e.progress = 100 <=> Terminal(e)
          /\ "error" \in DOMAIN e <=> e.status = "failed"
          /\ "download_url" \in DOMAIN e <=> e.status = "completed"
          /\ "filename" \in DOMAIN e <=> e.status = "completed"

C10_Witness ==
    \E t, u \in DOMAIN conversion_tasks :
       /\ Status(t) = "completed"
       /\ Status(u) = "failed"
       /\ conversion_tasks[u].error = "Conversion failed"

\* ------------------------------------------------------------------------
\* Properties of rejected uploads
\* ------------------------------------------------------------------------
\* the header of the last part of the body that declares a file under pdf_file
IsFileHeader(h) ==
    /\ h \in HeaderTokens
    /\ HeaderName(h) = "content-disposition"
    /\ HasKey(Disposition(h), "filename")
    /\ HasKey(Disposition(h), "name")
    /\ Lookup(Disposition(h), "name") = <<"pdf_file">>

DeclaredFileName(req) ==
    LET hs == [i \in 1..Len(req.parts) |->
                  SelectSeq(req.parts[i].headers, IsFileHeader)]
        i == CHOOSE i \in 1..Len(req.parts) :
                 hs[i] # <<>> /\ \A j \in (i + 1)..Len(req.parts) : hs[j] = <<>>
    IN Lookup(Disposition(hs[i][Len(hs[i])]), "filename")

\* the boundary parameter is missing or is not an RFC 2046 boundary
MalformedBoundary(content_type) ==
    BoundaryRaises(content_type) \/ BoundaryOf(content_type) = <<>>

\* which of the three rejected-upload cases a multipart request is in
RejectCase(req) ==
    IF ~IsMultipart(req.ctype) \/ req.content_length # "len" THEN "none"
    ELSE IF MalformedBoundary(req.ctype) THEN "boundary"
    ELSE IF NoFilePart(req) THEN "no file"
    ELSE IF ~EndsWithPdf(secure_filename(DeclaredFileName(req))) THEN "extension"
    ELSE "none"

\* the request the handler has just taken up
TakenUp == IF handler'.pc = "replied" THEN reply'.request ELSE handler'.request

\* C11: an upload with a malformed boundary token, without a file part, or
\* with a file name that does not end in .pdf after sanitization is answered
\* with an error that no request of the other two cases gets, and handling it
\* writes nothing to the upload directory or the download directory.
C11_RejectedUploads ==
    [][(handler.pc = "idle" /\ handler'.pc # "idle" /\ reply'.method # "GET"
          /\ RejectCase(TakenUp) # "none")
         => /\ handler'.pc = "replied"
            /\ DOMAIN reply'.json = {"error"}
            /\ \A r \in Requests :
                  RejectCase(r) \notin {"none", RejectCase(TakenUp)}
                    => reply'.json # ErrorJson(RejectReason(r))
            /\ UNCHANGED <<upload_dir, download_dir>>]_vars

\* the response in flight reports a failure: a POST that started no task, or
\* a download that served no file
IsErrorResponse ==
    \/ reply.method = "POST" /\ "task_id" \notin DOMAIN reply.json
    \/ reply.method = "GET" /\ reply.filename = <<>>

\* C12: every error response (an upload rejected for its content type, its
\* content length, a missing file, a wrong extension or a server error, and
\* a download of an unknown identifier) has a JSON body with an error
\* message and a status that signals an error (4xx or 5xx).
C12_ErrorResponses ==
    IsErrorResponse
      => /\ reply.content_type = "application/json"
         /\ "error" \in DOMAIN reply.json
         /\ reply.status >= 400

\* ------------------------------------------------------------------------
\* Properties of the conversion parameters
\* ------------------------------------------------------------------------
\* the parts of the body that are the form field h
FieldParts(req, h) ==
    SelectSeq(req.parts, LAMBDA pt : \E j \in 1..Len(pt.headers) : pt.headers[j] = h)

HasField(req, h) == FieldParts(req, h) # <<>>

\* the value the client declared for field h (the last one, if repeated)
Declared(req, h) == FieldParts(req, h)[Len(FieldParts(req, h))].content

\* the upload that was just accepted, and the thread started for it
Accepted == handler.pc = "L347"

NewThread == threads[Len(threads)]

\* the resolution the engine gets for the upload that was just accepted
DpiAsClaimed ==
    NewThread.dpi =
       IF ~HasField(handler.request, "H_dpi") THEN 300
       ELSE IF ~IsIntText(Strip(Declared(handler.request, "H_dpi"))) THEN 300
       ELSE IntOf(Strip(Declared(handler.request, "H_dpi")))

Counted(i) == \E n \in 1..Len(collected) : collected[n] = i

\* the call of item j had ended when the call of item i ended
FinishedBefore(j, i) ==
    \E m, n \in 1..Len(finished) : m < n /\ finished[m] = j /\ finished[n] = i

\* the loop counts item i in this step
Counts(i) == ~Counted(i) /\ Counted(i)'

\* C14 as stated: results are aggregated in completion order; an item that
\* was submitted later but finished earlier has been counted when the
\* earlier-submitted item is counted.
C14_CompletionOrder ==
    [][\A i, j \in Items :
         (Counts(i) /\ i < j /\ FinishedBefore(j, i)) => Counted(j)]_vars

\* C14, amended: results are aggregated in submission order; when an item is
\* counted, all items submitted before it have been counted and none that
\* was submitted after it, whichever of them finished first.
C14_SubmissionOrder ==
    [][\A i, j \in Items :
         Counts(i) => /\ j < i => Counted(j)
                      /\ j > i => ~Counted(j)']_vars

C14_Witness ==
    /\ Len(pdf_files) >= 3
    /\ FinishedBefore(2, 1)
    /\ FinishedBefore(3, 1)
    /\ Counted(1)
    /\ ~Counted(2)
    /\ ~Counted(3)

\* ------------------------------------------------------------------------
\* Properties of the background units
\* ------------------------------------------------------------------------
\* the entry of task t is written in this step
Written(t) ==
    /\ t \in DOMAIN conversion_tasks'
    /\ t \in DOMAIN conversion_tasks => conversion_tasks'[t] # conversion_tasks[t]

\* this step is a step of thread k and of nothing else
StepOf(k) ==
    /\ threads'[k].pc # threads[k].pc
    /\ \A h \in 1..Len(threads) : h # k => threads'[h] = threads[h]
    /\ Len(threads') = Len(threads)
    /\ handler' = handler

Finished(k) == threads[k].pc = "done"

\* C15: a task's registry entry is written only by steps of the one thread
\* created for the task; the first write registers it as processing, the
\* only other write replaces processing by a terminal entry, and a thread
\* that has ended (engine succeeded, returned false or raised, cleanup failed
\* or not) has left a terminal entry.
C15_SingleWriterOnce ==
    /\ [](\A k \in 1..Len(threads) : Finished(k) => IsTerminal(threads[k].file_id))
    /\ [][/\ DOMAIN conversion_tasks \subseteq DOMAIN conversion_tasks'
          /\ \A t \in DOMAIN conversion_tasks' :
                Written(t)
                  => /\ \E k \in 1..Len(threads) :
                           /\ threads[k].file_id = t
                           /\ StepOf(k)
                           /\ \A h \in 1..Len(threads) :
                                 threads[h].file_id = t => h = k
                     /\ IF t \in DOMAIN conversion_tasks
                        THEN /\ Status(t) = "processing"
                             /\ Terminal(conversion_tasks'[t])
                        ELSE conversion_tasks'[t].status = "processing"]_vars

C15_Witness ==
    \E k, h \in 1..Len(threads) :
       /\ Finished(k)
       /\ Status(threads[k].file_id) = "completed"
       /\ threads[k].pdf_path \in DOMAIN upload_dir
       /\ Finished(h)
       /\ Status(threads[h].file_id) = "failed"
       /\ threads[h].pdf_path \notin DOMAIN upload_dir

\* thread k leaves position pc in this step
Leaves(k, pc) == threads[k].pc = pc /\ threads'[k].pc # pc

OwnOutcomeEntry(k) ==
    IF threads[k].wrote # <<>>
    THEN [status |-> "completed", progress |-> 100,
          download_url |-> DownloadPrefix \o threads[k].output_path,
          filename |-> threads[k].output_filename]
    ELSE [status |-> "failed", progress |-> 100,
          error |-> IF threads[k].e # "" THEN threads[k].e ELSE "Conversion failed"]

\* C17: a step of a task's thread leaves the entries of all other tasks as
\* they are; the thread finds its own upload whatever the other threads have
\* done, and the terminal entry it leaves is the one its own engine outcome
\* calls for.
C17_TasksIndependent ==
    /\ [](\A k \in 1..Len(threads) :
            /\ threads[k].pc \in {"L319", "L320"}
                 => threads[k].pdf_path \in DOMAIN upload_dir
            /\ Finished(k) => conversion_tasks[threads[k].file_id] = OwnOutcomeEntry(k))
    /\ [][\A k \in 1..Len(threads) :
            threads'[k].pc # threads[k].pc
              => \A t \in DOMAIN conversion_tasks :
                    t # threads[k].file_id
                      => /\ t \in DOMAIN conversion_tasks'
                         /\ conversion_tasks'[t] = conversion_tasks[t]]_vars

C17_Witness ==
    /\ Len(threads) >= 2
    /\ Finished(1)
    /\ Finished(2)
    /\ threads[1].e # ""
    /\ Status(threads[1].file_id) = "failed"
    /\ threads[1].output_filename = threads[2].output_filename
    /\ Status(threads[2].file_id) = "completed"

\* ------------------------------------------------------------------------
\* Properties of the artifact of a completed task
\* ------------------------------------------------------------------------
Completed(k) ==
    /\ threads[k].file_id \in DOMAIN conversion_tasks
    /\ Status(threads[k].file_id) = "completed"

\* the file name the download locator of task k ends in
Located(k) == LastSegment(conversion_tasks[threads[k].file_id].download_url)

\* C18: the artifact is in the download directory, under its identifier-scoped
\* name, before the task becomes completed, and the upload is removed only
\* after the entry is terminal; so whenever a task is completed its locator
\* names a non-empty file of the download directory, and a download with
\* that locator answers 200 with non-empty bytes, never 404.
C18_ArtifactBeforeCompleted ==
    /\ [](\A k \in 1..Len(threads) :
            Completed(k)
              => /\ Located(k) = threads[k].output_path
                 /\ StartsWith(Located(k), threads[k].file_id)
                 /\ Located(k) \in DOMAIN download_dir
                 /\ download_dir[Located(k)] # <<>>)
    /\ [][\A k \in 1..Len(threads) :
            /\ (~Completed(k) /\ Completed(k)')
                 => /\ threads[k].output_path \in DOMAIN download_dir
                    /\ threads[k].pdf_path \in DOMAIN upload_dir'
            /\ (threads[k].pdf_path \in DOMAIN upload_dir
                   /\ threads[k].pdf_path \notin DOMAIN upload_dir')
                 => IsTerminal(threads[k].file_id)
            /\ (AnsweredGet /\ Completed(k)
                   /\ reply'.path = conversion_tasks[threads[k].file_id].download_url)
                 => reply'.status = 200 /\ reply'.data # <<>>]_vars

C18_Witness ==
    \E k \in 1..Len(threads) :
       /\ Completed(k)
       /\ threads[k].pdf_path \notin DOMAIN upload_dir
       /\ reply.method = "GET"
       /\ reply.path = conversion_tasks[threads[k].file_id].download_url
       /\ reply.status = 200
       /\ reply.data = threads[k].wrote
       /\ Len(reply.data) >= 2

\* ------------------------------------------------------------------------
\* Properties of the paths of concurrent tasks
\* ------------------------------------------------------------------------
\* the file name the client gave to the upload of thread k, as sanitized
OriginalName(k) ==
    SubSeq(threads[k].pdf_path, Len(threads[k].file_id) + 2, Len(threads[k].pdf_path))

\* C19: two different tasks never have the same path in the upload directory
\* nor the same path in the download directory, also when their uploads
\* have the same file name; a step of one thread does not write or delete a
\* file at a path of another task.
C19_PathsDistinct ==
    /\ [](\A k, h \in 1..Len(threads) :
            k # h => /\ threads[k].pdf_path # threads[h].pdf_path
                     /\ threads[k].output_path # threads[h].output_path)
    /\ [][\A k, h \in 1..Len(threads) :
            (k # h /\ threads'[k].pc # threads[k].pc)
              => /\ threads[h].pdf_path \in DOMAIN upload_dir
                      <=> threads[h].pdf_path \in DOMAIN upload_dir'
                 /\ threads[h].output_path \in DOMAIN download_dir
                      <=> threads[h].output_path \in DOMAIN download_dir'
                 /\ threads[h].output_path \in DOMAIN download_dir
                      => download_dir'[threads[h].output_path]
                           = download_dir[threads[h].output_path]]_vars

C19_Witness ==
    /\ Len(threads) >= 2
    /\ OriginalName(1) = OriginalName(2)
    /\ threads[1].pc = "L334"
    /\ threads[2].pc = "L334"
    /\ threads[1].pdf_path \in DOMAIN upload_dir
    /\ threads[2].pdf_path \in DOMAIN upload_dir
    /\ threads[1].output_path \in DOMAIN download_dir
    /\ threads[2].output_path \in DOMAIN download_dir

\* ------------------------------------------------------------------------
\* Properties of a body with two file parts
\* ------------------------------------------------------------------------
IsFilePart(pt) == SelectSeq(pt.headers, IsFileHeader) # <<>>

\* the file parts of the parsed body, in body order
FileParts == SelectSeq(p_in.parts, IsFilePart)

LastFilePart == FileParts[Len(FileParts)]

\* the file name a file part declares
NameOf(pt) ==
    LET hs == SelectSeq(pt.headers, IsFileHeader)
    IN Lookup(Disposition(hs[Len(hs)]), "filename")

HasDelimiter(content) == \E i \in 1..Len(content) : content[i] = "D"

\* C20: when the body has more than one file part under pdf_file, the file
\* name and the bytes the parser yields are both those of the last of them
\* in body order: the name that part declares, and the bytes the parser
\* yields for a body of that part alone (its content, if no delimiter occurs
\* in it).
C20_LastFilePartWins ==
    (p_pc = "parsed" /\ Len(FileParts) > 1)
      => /\ p_out.has_file
         /\ p_out.pdf_filename = NameOf(LastFilePart)
         /\ p_out.pdf_file = ParseForm(MakeBody(<<LastFilePart>>)).pdf_file
         /\ ~HasDelimiter(LastFilePart.content)
              => p_out.pdf_file = LastFilePart.content

C20_Witness ==
    /\ p_pc = "parsed"
    /\ Len(FileParts) = 2
    /\ Len(p_in.parts) = 3
    /\ p_in.parts[1].headers = <<"H_file_b">>
    /\ p_in.parts[3].headers = <<"H_file_a">>
    /\ p_out.pdf_filename = FileNameA
    /\ p_out.pdf_file = <<"x", "sp">>
    /\ p_in.parts[1].content = <<"x", "CRLF">>

\* ------------------------------------------------------------------------
\* Properties of the download lookup
\* ------------------------------------------------------------------------
\* the threads of the tasks that the request string X names: by the task
\* identifier or by the file name of the download locator
NamedBy(X) ==
    {k \in 1..Len(threads) : X = threads[k].file_id \/ X = threads[k].output_path}

\* C21: a download for the string X answers either with the artifact of a
\* task that X names, or with 404; this for every X, the empty string and
\* the proper prefixes of an identifier included.
C21_DownloadOnlyNamedTask ==
    [][AnsweredGet
         => \/ reply'.status = 404
            \/ /\ reply'.status = 200
               /\ \E k \in NamedBy(LastSegment(reply'.path)) :
                     /\ reply'.filename = threads[k].output_path
                     /\ reply'.data = threads[k].wrote]_vars

\* ------------------------------------------------------------------------
\* Properties of the output paths of a batch run
\* ------------------------------------------------------------------------
\* C22: different resolved items have different output paths, with the
\* outputs next to their sources and with an output directory given for a
\* recursively scanned input directory: no two workers hold items with the
\* same output path at the same time, and no output file is written for two
\* items.
C22_DistinctOutputPaths ==
    /\ \A w, v \in 1..max_workers :
          (w # v /\ workers[w] # 0 /\ workers[v] # 0)
            => OutputPath(workers[w]) # OutputPath(workers[v])
    /\ \A o, q \in outputs : o[1] = q[1] => o[2] = q[2]

\* ------------------------------------------------------------------------
\* Properties of the staged uploads
\* ------------------------------------------------------------------------
\* C23: when a task's thread has ended, with the task completed, failed on
\* a false engine result or failed on an engine exception, the task's upload
\* is no longer in the upload directory.
C23_UploadRemoved ==
    \A k \in 1..Len(threads) :
       Finished(k) => threads[k].pdf_path \notin DOMAIN upload_dir

\* ------------------------------------------------------------------------
\* Properties of downloads that race with the conversion
\* ------------------------------------------------------------------------
\* the response of this step carries the artifact of the task of thread k
ServesArtifactOf(k) ==
    /\ AnsweredGet
    /\ reply'.status = 200
    /\ reply'.filename = threads[k].output_path

\* C24: a download answers with the bytes of a task's artifact only when
\* the registry shows the task as completed, never while it is processing
\* or when it is failed, however the request interleaves with the thread.
C24_BytesOnlyWhenCompleted ==
    [][\A k \in 1..Len(threads) : ServesArtifactOf(k) => Completed(k)]_vars

====
